---- MODULE Spec2Model ----
(***************************************************************************)
(* Model of mkslides' MarkupGenerator (markupgenerator.py): the facade     *)
(* calls clear_output_directory, create_output_directory and               *)
(* process_markdown acting on a file system.                               *)
(*                                                                         *)
(* A path is the sequence of its parts below the file-system root; a part  *)
(* is a record [stem, suffix] (pathlib's split of a name at its last dot). *)
(* The file system is a function from the paths that exist to their node.  *)
(***************************************************************************)
EXTENDS Integers, Sequences, FiniteSets, TLC

VARIABLES
    fs,                     \* the file system: path -> node
    config,                 \* the Config object given to the constructor
    output_directory_path,  \* self.output_directory_path
    now,                    \* the wall clock, one tick per facade call
    listing,                \* the order in which the file system enumerates the md files
    pc,                     \* "idle", or "dir" inside __process_markdown_directory's loop
    slideshows,             \* the local list of __process_markdown_directory
    order,                  \* history: the md files the current call has taken up
    written,                \* history: the paths the last step wrote or copied to
    warnings,               \* history: the paths logger.warning named in the last step
    runWritten,             \* history: the paths the current call has written so far
    result,                 \* history: "none", "running", "ok" or "error" (an exception left the call)
    step,                   \* history: which step was the last one
    input,                  \* history: the argument of the last process_markdown call
    created,                \* history: create_output_directory ran and no clear followed it
    base                    \* history: the output tree a second run in succession starts from

vars == <<fs, config, output_directory_path, listing, now, pc, slideshows, order,
          written, warnings, runWritten, result, step, input, created, base>>

\* ---------------------------------------------------------------- bounds

\* At most this many Markdown files lie under the source root.
MaxDocs == 2
\* At most this many facade calls are made in one behaviour.
MaxTime == 3

\* ---------------------------------------------------------------- paths

\* A directory-like part (a name without a dot) and a part with a suffix.
D(name) == [stem |-> name, suffix |-> ""]
F(stem, suffix) == [stem |-> stem, suffix |-> suffix]
UP == D("..")

Last(s) == s[Len(s)]
Reverse(s) == [i \in 1..Len(s) |-> s[Len(s) + 1 - i]]
\* PurePath.parent
Parent(p) == SubSeq(p, 1, Len(p) - 1)
\* PurePath.is_relative_to
IsRelativeTo(p, other) ==
    Len(other) <= Len(p) /\ \A i \in 1..Len(other) : p[i] = other[i]
\* PurePath.relative_to(other), walk_up=False: defined when IsRelativeTo(p, other)
RelativeTo(p, other) == SubSeq(p, Len(other) + 1, Len(p))
\* PurePath.with_suffix
WithSuffix(p, suffix) == [p EXCEPT ![Len(p)] = F(p[Len(p)].stem, suffix)]

RECURSIVE Ups(_)
Ups(n) == IF n = 0 THEN <<>> ELSE <<UP>> \o Ups(n - 1)

\* PurePath.relative_to(other, walk_up=True): climb other's parents until one is
\* an ancestor of p; a ".." part met while climbing is a ValueError.
RECURSIVE WalkUp(_, _, _)
WalkUp(p, path, n) ==
    IF IsRelativeTo(p, path)
    THEN [ok |-> TRUE, parts |-> Ups(n) \o RelativeTo(p, path)]
    ELSE IF Last(path) = UP
    THEN [ok |-> FALSE, parts |-> <<>>]
    ELSE WalkUp(p, Parent(path), n + 1)

\* Mutant: the path is taken relative to the output root, not to the
\* directory of the file that uses it.
RelativeToOutputRoot(p, other) ==
    [ok |-> TRUE, parts |-> RelativeTo(p, output_directory_path)]

RelativeToWalkUp(p, other) == WalkUp(p, other, 0)

\* Path.resolve on an absolute path without symlinks: ".." removes the part before it.
RECURSIVE Normalize(_, _)
Normalize(done, rest) ==
    IF rest = <<>> THEN done
    ELSE IF rest[1] = UP
    THEN Normalize(IF done = <<>> THEN done ELSE Parent(done), Tail(rest))
    ELSE Normalize(Append(done, rest[1]), Tail(rest))

\* How a browser or the OS resolves a relative reference against a directory.
ResolveAgainst(dir, rel) == Normalize(<<>>, dir \o rel)

\* ---------------------------------------------------------- file system

DirNode == [kind |-> "dir"]
FileNode(data) == [kind |-> "file", data |-> data]

Exists(f, p) == p \in DOMAIN f
IsDir(f, p) == Exists(f, p) /\ f[p].kind = "dir"
IsFile(f, p) == Exists(f, p) /\ f[p].kind = "file"

\* The directories a path lies in, the file-system root excluded.
Ancestors(p) == {SubSeq(p, 1, k) : k \in 1..(Len(p) - 1)}
\* The paths at or below p.
Under(f, p) == {q \in DOMAIN f : IsRelativeTo(q, p)}
Tree(f, p) == [q \in Under(f, p) |-> f[q]]

\* Path.mkdir(parents=True, exist_ok=True) succeeds unless a file is in the way.
MkdirOk(f, p) == \A q \in Ancestors(p) \cup {p} : Exists(f, q) => IsDir(f, q)
Mkdir(f, p) ==
    [q \in DOMAIN f \cup Ancestors(p) \cup {p} |->
        IF q \in DOMAIN f THEN f[q] ELSE DirNode]

\* Path.write_text and the file copy of shutil: the destination holds the data.
Put(f, p, data) == [q \in DOMAIN f \cup {p} |-> IF q = p THEN FileNode(data) ELSE f[q]]

\* shutil.rmtree
Rmtree(f, p) == [q \in DOMAIN f \ Under(f, p) |-> f[q]]

\* A step's world: the file system it has reached, what it wrote, what it
\* warned about, and whether an exception is propagating (ok = FALSE).
World(f) == [fs |-> f, written |-> {}, warnings |-> {}, ok |-> TRUE]
Raise(w) == [w EXCEPT !.ok = FALSE]

\* ------------------------------------------------------------ the inputs

\* The working directory of the process, the source root and the outside.
Cwd == <<D("proj")>>
md_root_path == Cwd \o <<D("docs")>>
assets_path == Cwd \o <<D("assets")>>
revealjs_path == assets_path \o <<F("reveal", ".js-master")>>

\* The output directories the constructor is given: beside the source root, or in it.
OutputChoices == {Cwd \o <<D("site")>>, md_root_path \o <<D("site")>>}

output_assets_path == output_directory_path \o <<D("assets")>>
output_revealjs_path == output_assets_path \o <<D("reveal-js")>>
index_path == output_directory_path \o <<F("index", ".html")>>

\* Values handed to a template or held by the configuration.
None == [tag |-> "none"]
Str(scheme, parts) == [tag |-> "str", scheme |-> scheme, parts |-> parts]
PathValue(parts) == [tag |-> "path", parts |-> parts]

\* An image reference found in a document: a location relative to the
\* document's directory, or an absolute one.
Rel(parts) == [abs |-> FALSE, parts |-> parts]
Abs(parts) == [abs |-> TRUE, parts |-> parts]

CatPng == md_root_path \o <<D("img"), F("cat", ".png")>>
DogPng == <<D("ext"), F("dog", ".png")>>

MdData(malformed, metadata, text, images) ==
    [type |-> "md", malformed |-> malformed, metadata |-> metadata,
     markdown |-> [text |-> text, images |-> images]]

\* The Markdown files a source root may hold.  a.md has a title, an image in
\* the root and one outside it; index.md and b.md have no title; bad.md has
\* malformed front-matter; miss.md references a file that does not exist.
DocA == <<md_root_path \o <<F("a", ".md")>>,
          MdData(FALSE, {<<"title", "Intro">>}, "A",
                 <<Rel(<<D("img"), F("cat", ".png")>>), Abs(DogPng)>>)>>
DocIndex == <<md_root_path \o <<F("index", ".md")>>,
              MdData(FALSE, {}, "I", <<>>)>>
DocB == <<md_root_path \o <<D("slides"), D("sub"), F("b", ".md")>>,
          MdData(FALSE, {<<"author", "B">>}, "B",
                 <<Rel(<<UP, UP, D("img"), F("cat", ".png")>>)>>)>>
DocBad == <<md_root_path \o <<F("bad", ".md")>>,
            MdData(TRUE, {}, "X", <<>>)>>
DocMiss == <<md_root_path \o <<D("slides"), F("miss", ".md")>>,
             MdData(FALSE, {<<"title", "Miss">>}, "M",
                    <<Rel(<<D("img"), F("none", ".png")>>)>>)>>

Candidates == {DocA, DocIndex, DocB, DocBad, DocMiss}

\* The enumeration orders modelled: one order of the documents, and its reverse.
InDocs(docs, p) == \E d \in docs : d[1] = p
Forward(docs) ==
    LET Present(p) == InDocs(docs, p)
    IN SelectSeq(<<DocA[1], DocIndex[1], DocB[1], DocBad[1], DocMiss[1]>>, Present)
Listings(docs) == {Forward(docs), Reverse(Forward(docs))}

SlidesCss == Cwd \o <<D("themes"), F("t", ".css")>>
IndexCss == Cwd \o <<D("alt"), F("t", ".css")>>
SlidesTemplate == Cwd \o <<D("templates"), F("slideshow", ".jinja")>>
IndexTemplate == Cwd \o <<D("templates"), F("index", ".jinja")>>

\* What is on disk besides the documents: the bundled framework, two themes
\* with the same file name, the two templates and two images.
StaticFiles ==
    { <<revealjs_path \o <<F("reveal", ".js")>>, [type |-> "asset", id |-> "reveal.js"]>>,
      <<SlidesCss, [type |-> "asset", id |-> "slides-theme"]>>,
      <<IndexCss, [type |-> "asset", id |-> "index-theme"]>>,
      <<SlidesTemplate, [type |-> "template", id |-> "slideshow"]>>,
      <<IndexTemplate, [type |-> "template", id |-> "index"]>>,
      <<CatPng, [type |-> "asset", id |-> "cat"]>>,
      <<DogPng, [type |-> "asset", id |-> "dog"]>> }

FsOf(files) ==
    LET paths == {e[1] : e \in files}
        dirs == UNION {Ancestors(p) : p \in paths}
    IN [q \in paths \cup dirs |->
          IF q \in paths
          THEN FileNode((CHOOSE e \in files : e[1] = q)[2])
          ELSE DirNode]

InitialFs(docs) == FsOf(StaticFiles \cup docs)

UrlTheme == Str("https", <<F("example", ".com"), F("t", ".css")>>)
\* The slideshow side of the configuration: no theme, a URL, a local file,
\* a local file that does not exist, or a template that does not exist.
SlidesChoices ==
    { [theme |-> None, template |-> Str("", <<D("templates"), F("slideshow", ".jinja")>>)],
      [theme |-> UrlTheme, template |-> Str("", <<D("templates"), F("slideshow", ".jinja")>>)],
      [theme |-> Str("", <<D("themes"), F("t", ".css")>>),
       template |-> Str("", <<D("templates"), F("slideshow", ".jinja")>>)],
      [theme |-> Str("", <<D("themes"), F("gone", ".css")>>),
       template |-> Str("", <<D("templates"), F("slideshow", ".jinja")>>)],
      [theme |-> None, template |-> Str("", <<D("templates"), F("gone", ".jinja")>>)] }
IndexChoices ==
    { [theme |-> None], [theme |-> UrlTheme],
      [theme |-> Str("", <<D("alt"), F("t", ".css")>>)] }

ConfigChoices ==
    { [slides |-> s,
       index |-> [theme |-> i.theme, title |-> "Index",
                  template |-> Str("", <<D("templates"), F("index", ".jinja")>>)],
       separator |-> "---",
       revealjs |-> "reveal-config"] : s \in SlidesChoices, i \in IndexChoices }

\* ------------------------------------------------------- the operations

\* __copy_file: the parent directories are made, then shutil.copy (which
\* copies into the destination when the destination is a directory).
copy_file(w, source_path, destination_path) ==
    IF ~MkdirOk(w.fs, Parent(destination_path)) THEN Raise(w)
    ELSE LET f1 == Mkdir(w.fs, Parent(destination_path))
             target == IF IsDir(f1, destination_path)
                       THEN Append(destination_path, Last(source_path))
                       ELSE destination_path
         IN [w EXCEPT !.fs = Put(f1, target, f1[source_path].data),
                      !.written = @ \cup {target}]

\* __copy_tree: shutil.copytree(dirs_exist_ok=True) merges the source tree
\* into the destination, overwriting the files it meets.
copy_tree(w, source_path, destination_path) ==
    IF ~MkdirOk(w.fs, destination_path) THEN Raise(w)
    ELSE LET f1 == Mkdir(w.fs, destination_path)
             below == Under(f1, source_path)
             Target(q) == destination_path \o RelativeTo(q, source_path)
             targets == {Target(q) : q \in below}
         IN [w EXCEPT
               !.fs = [t \in DOMAIN f1 \cup targets |->
                         IF t \in targets
                         THEN f1[CHOOSE q \in below : Target(q) = t]
                         ELSE f1[t]],
               !.written = @ \cup {Target(q) : q \in {x \in below : IsFile(f1, x)}}]

\* __copy
copy(w, source_path, destination_path) ==
    IF IsDir(w.fs, source_path)
    THEN copy_tree(w, source_path, destination_path)
    ELSE copy_file(w, source_path, destination_path)

\* Mutant: an existing destination is appended to instead of replaced.
create_file_append(w, destination_path, content) ==
    IF Exists(w.fs, destination_path)
    THEN [w EXCEPT !.fs = Put(w.fs, destination_path,
                              [type |-> "appended",
                               old |-> w.fs[destination_path].data,
                               new |-> content]),
                   !.written = @ \cup {destination_path}]
    ELSE [w EXCEPT !.fs = Put(Mkdir(w.fs, Parent(destination_path)),
                              destination_path, content),
                   !.written = @ \cup {destination_path}]

\* __create_file: both branches end with the content at the destination.
create_file(w, destination_path, content) ==
    IF Exists(w.fs, destination_path)
    THEN IF IsDir(w.fs, destination_path) THEN Raise(w)
         ELSE [w EXCEPT !.fs = Put(w.fs, destination_path, content),
                        !.written = @ \cup {destination_path}]
    ELSE IF ~MkdirOk(w.fs, Parent(destination_path)) THEN Raise(w)
         ELSE [w EXCEPT !.fs = Put(Mkdir(w.fs, Parent(destination_path)),
                                   destination_path, content),
                        !.written = @ \cup {destination_path}]

\* __copy_to_output (its return value is not used by any caller)
copy_to_output(w, source_path, destination_path) ==
    copy(w, source_path, destination_path)

\* Mutant: no is_relative_to guard, so relative_to raises outside the root.
copy_to_output_unguarded(w, source_path) ==
    IF ~IsRelativeTo(source_path, md_root_path)
    THEN Raise(w)
    ELSE copy(w, source_path,
              output_directory_path \o RelativeTo(source_path, md_root_path))

\* __copy_to_output_relative_to_md_root: a path outside the source root is
\* skipped with a warning.
copy_to_output_relative_to_md_root(w, source_path) ==
    IF ~IsRelativeTo(source_path, md_root_path)
    THEN [w EXCEPT !.warnings = @ \cup {source_path}]
    ELSE copy(w, source_path,
              output_directory_path \o RelativeTo(source_path, md_root_path))

\* Path(md_file.parent, location).resolve(): an absolute location replaces
\* the directory it is joined to.
ImagePath(md_file, location) ==
    IF location.abs THEN Normalize(<<>>, location.parts)
    ELSE ResolveAgainst(Parent(md_file), location.parts)

\* __copy_images: the references in the order the regexes find them; one that
\* does not resolve to an existing file raises (resolve(strict=True)).
RECURSIVE copy_images_from(_, _, _, _)
copy_images_from(w, md_file, images, i) ==
    IF ~w.ok \/ i > Len(images) THEN w
    ELSE LET image == ImagePath(md_file, images[i])
         IN IF ~Exists(w.fs, image) THEN Raise(w)
            ELSE copy_images_from(copy_to_output_relative_to_md_root(w, image),
                                  md_file, images, i + 1)

copy_images(w, md_file, markdown) == copy_images_from(w, md_file, markdown.images, 1)

\* Mutant: no string is taken for an absolute URL.
is_absolute_url_never(url) == FALSE

\* __is_absolute_url: urlparse(url).scheme is not empty
is_absolute_url(url) == url.scheme # ""

\* __copy_theme: the world after it and the value it returns.
copy_theme(w, file_using_theme_path, theme) ==
    IF is_absolute_url(theme) THEN [w |-> w, ret |-> theme]
    ELSE LET theme_path == ResolveAgainst(Cwd, theme.parts)
             theme_output_path == Append(output_assets_path, Last(theme_path))
             relative_theme_path ==
                 RelativeToWalkUp(theme_output_path, Parent(file_using_theme_path))
         IN IF ~Exists(w.fs, theme_path) THEN [w |-> Raise(w), ret |-> None]
            ELSE LET w1 == copy_to_output(w, theme_path, theme_output_path)
                 IN IF ~w1.ok \/ ~relative_theme_path.ok
                    THEN [w |-> Raise(w1), ret |-> None]
                    ELSE [w |-> w1, ret |-> PathValue(relative_theme_path.parts)]

\* jinja2_environment.get_template: the loader reads below the working directory.
TemplateFound(f, template) ==
    template.tag = "str" /\ IsFile(f, ResolveAgainst(Cwd, template.parts))

\* The options of "slides" that have a value (the model configures one).
MarkdownDataOptions(cfg) ==
    IF cfg.separator = "" THEN {} ELSE {<<"separator", cfg.separator>>}

\* The output path of a document: the source root swapped for the output
\* root and the suffix for .html.
OutputMarkupPath(md_file) ==
    WithSuffix(output_directory_path \o RelativeTo(md_file, md_root_path), ".html")

\* __process_markdown_file
process_markdown_file(w, md_file) ==
    IF ~IsFile(w.fs, md_file) \/ w.fs[md_file].data.type # "md" THEN Raise(w)
    ELSE IF w.fs[md_file].data.malformed THEN Raise(w)
    ELSE IF ~IsRelativeTo(md_file, md_root_path) THEN Raise(w)
    ELSE
      LET markdown == w.fs[md_file].data.markdown
          output_markup_path == OutputMarkupPath(md_file)
          relative_revealjs_path ==
              RelativeToWalkUp(output_revealjs_path, Parent(output_markup_path))
          theme == config.slides.theme
          t == IF theme.tag # "none"
               THEN copy_theme(w, output_markup_path, theme)
               ELSE [w |-> w, ret |-> None]
          markup == [type |-> "slideshow",
                     template |-> config.slides.template.parts,
                     theme |-> t.ret,
                     revealjs_path |-> PathValue(relative_revealjs_path.parts),
                     markdown_data_options |-> MarkdownDataOptions(config),
                     markdown |-> markdown,
                     revealjs_config |-> config.revealjs]
      IN IF ~relative_revealjs_path.ok THEN Raise(w)
         ELSE IF ~t.w.ok THEN t.w
         ELSE IF ~TemplateFound(t.w.fs, config.slides.template) THEN Raise(t.w)
         ELSE LET w2 == create_file(t.w, output_markup_path, markup)
              IN IF ~w2.ok THEN w2 ELSE copy_images(w2, md_file, markdown)

\* Mutant: the front-matter title is ignored.
TitleFromStem(metadata, md_file) == Last(md_file).stem

\* frontmatter.parse gives the metadata; metadata.get("title", md_file.stem)
Title(metadata, md_file) ==
    IF \E kv \in metadata : kv[1] = "title"
    THEN (CHOOSE kv \in metadata : kv[1] = "title")[2]
    ELSE Last(md_file).stem

\* The entry __process_markdown_directory appends for a processed file.
IndexEntry(f, md_file) ==
    [title |-> Title(f[md_file].data.metadata, md_file),
     location |-> RelativeTo(OutputMarkupPath(md_file), output_directory_path)]

\* md_root_path.glob("**/*.md"): the files it matches, and the sequence it
\* yields them in (the enumeration order of the unchanged directories).
Matches(f, p) ==
    Exists(f, p) /\ IsRelativeTo(p, md_root_path) /\ p # md_root_path
       /\ Last(p).suffix = ".md"
Glob(f) == {p \in DOMAIN f : Matches(f, p)}
InGlob(p) == Matches(fs, p)
GlobSeq == SelectSeq(listing, InGlob)

Range(s) == {s[i] : i \in 1..Len(s)}

\* The part of __process_markdown_directory after its loop.
generate_index(w, entries, datetime) ==
    LET theme == config.index.theme
        t == IF theme.tag # "none"
             THEN copy_theme(w, index_path, theme)
             ELSE [w |-> w, ret |-> None]
        content == [type |-> "index",
                    template |-> config.index.template.parts,
                    title |-> config.index.title,
                    theme |-> t.ret,
                    slideshows |-> entries,
                    build_datetime |-> datetime]
    IN IF ~t.w.ok THEN t.w
       ELSE IF ~TemplateFound(t.w.fs, config.index.template) THEN Raise(t.w)
       ELSE create_file(t.w, index_path, content)

\* Mutant: the output directory is made but the framework is not copied.
create_output_without_framework(w) ==
    IF ~MkdirOk(w.fs, output_directory_path) THEN Raise(w)
    ELSE [w EXCEPT !.fs = Mkdir(w.fs, output_directory_path)]

\* create_output_directory's body
create_output(w) ==
    IF ~MkdirOk(w.fs, output_directory_path) THEN Raise(w)
    ELSE copy([w EXCEPT !.fs = Mkdir(w.fs, output_directory_path)],
              revealjs_path, output_revealjs_path)

\* clear_output_directory's body
clear_output(w) ==
    IF Exists(w.fs, output_directory_path)
    THEN [w EXCEPT !.fs = Rmtree(w.fs, output_directory_path)]
    ELSE w

\* Mutant: the index is generated in single-file mode too.
single_file_with_index(w, input_path) ==
    LET w1 == process_markdown_file(w, input_path)
    IN IF ~w1.ok THEN w1
       ELSE generate_index(w1, <<IndexEntry(w.fs, input_path)>>, now)

\* process_markdown on a path that is not a directory
single_file(w, input_path) == process_markdown_file(w, input_path)

\* Where __process_markdown_directory is after a file: an exception of
\* __process_markdown_file is not caught, so it ends the loop and the call.
PcAfterFile(w) == IF w.ok THEN "dir" ELSE "idle"

\* ---------------------------------------------------------- the machine

NoBase == [valid |-> FALSE, out |-> <<>>]

\* An output tree without the build timestamp of its index page.
StripTime(tree) ==
    [q \in DOMAIN tree |->
        IF tree[q].kind = "file" /\ tree[q].data.type = "index"
        THEN [tree[q] EXCEPT !.data.build_datetime = 0]
        ELSE tree[q]]

Init ==
    /\ \E docs \in SUBSET Candidates :
          /\ Cardinality(docs) <= MaxDocs
          /\ fs = InitialFs(docs)
          /\ listing \in Listings(docs)
    /\ config \in ConfigChoices
    /\ output_directory_path \in OutputChoices
    /\ now = 0
    /\ pc = "idle"
    /\ slideshows = <<>>
    /\ order = <<>>
    /\ written = {}
    /\ warnings = {}
    /\ runWritten = {}
    /\ result = "none"
    /\ step = "none"
    /\ input = <<>>
    /\ created = FALSE
    /\ base = NoBase

\* What a step leaves behind.
Effects(w) ==
    /\ fs' = w.fs
    /\ written' = w.written
    /\ warnings' = w.warnings

clear_output_directory ==
    /\ pc = "idle" /\ now < MaxTime
    /\ now' = now + 1
    /\ LET w == clear_output(World(fs))
       IN /\ Effects(w)
          /\ runWritten' = w.written
          /\ result' = IF w.ok THEN "ok" ELSE "error"
    /\ step' = "clear"
    /\ created' = FALSE
    /\ base' = NoBase
    /\ slideshows' = <<>> /\ order' = <<>> /\ input' = <<>>
    /\ UNCHANGED <<config, output_directory_path, listing, pc>>

create_output_directory ==
    /\ pc = "idle" /\ now < MaxTime
    /\ now' = now + 1
    /\ LET w == create_output(World(fs))
       IN /\ Effects(w)
          /\ runWritten' = w.written
          /\ result' = IF w.ok THEN "ok" ELSE "error"
          /\ created' = (created \/ w.ok)
    /\ step' = "create"
    /\ base' = NoBase
    /\ slideshows' = <<>> /\ order' = <<>> /\ input' = <<>>
    /\ UNCHANGED <<config, output_directory_path, listing, pc>>

\* process_markdown(input_path): a directory starts the loop of
\* __process_markdown_directory, anything else is processed as one file.
process_markdown(input_path) ==
    /\ pc = "idle" /\ now < MaxTime
    /\ now' = now + 1
    /\ slideshows' = <<>>
    /\ input' = input_path
    /\ IF IsDir(fs, input_path)
       THEN /\ pc' = "dir"
            /\ Effects(World(fs))
            /\ runWritten' = {}
            /\ order' = <<>>
            /\ result' = "running"
            /\ step' = "start"
            /\ base' = IF step = "index" /\ result = "ok"
                       THEN [valid |-> TRUE,
                             out |-> StripTime(Tree(fs, output_directory_path))]
                       ELSE NoBase
       ELSE LET w == single_file(World(fs), input_path)
            IN /\ pc' = "idle"
               /\ Effects(w)
               /\ runWritten' = w.written
               /\ order' = <<input_path>>
               /\ result' = IF w.ok THEN "ok" ELSE "error"
               /\ step' = "single"
               /\ base' = NoBase
    /\ UNCHANGED <<config, output_directory_path, listing, created>>

\* One iteration of the loop over md_root_path.glob("**/*.md").
ProcessNextFile ==
    /\ pc = "dir"
    /\ Len(order) < Len(GlobSeq)
    /\ LET md_file == GlobSeq[Len(order) + 1]
           w == process_markdown_file(World(fs), md_file)
       IN /\ Effects(w)
          /\ runWritten' = runWritten \cup w.written
          /\ result' = IF w.ok THEN "running" ELSE "error"
          /\ order' = Append(order, md_file)
          /\ pc' = PcAfterFile(w)
          /\ slideshows' = IF PcAfterFile(w) # "dir" THEN <<>>
                           ELSE IF w.ok THEN Append(slideshows, IndexEntry(fs, md_file))
                           ELSE slideshows
    /\ step' = "file"
    /\ UNCHANGED <<config, output_directory_path, listing, now, input, created, base>>

\* The loop is over: the index is rendered and written.
GenerateIndex ==
    /\ pc = "dir"
    /\ Len(order) >= Len(GlobSeq)
    /\ LET w == generate_index(World(fs), slideshows, now)
       IN /\ Effects(w)
          /\ runWritten' = runWritten \cup w.written
          /\ result' = IF w.ok THEN "ok" ELSE "error"
    /\ pc' = "idle"
    /\ slideshows' = <<>>
    /\ step' = "index"
    /\ UNCHANGED <<config, output_directory_path, listing, now, order, input, created, base>>

\* The paths process_markdown may be called with: the source root, a
\* directory in it, or a document.
InputPaths == {md_root_path, Parent(CatPng)} \cup Glob(fs)

Next ==
    \/ clear_output_directory
    \/ create_output_directory
    \/ \E input_path \in InputPaths : process_markdown(input_path)
    \/ ProcessNextFile
    \/ GenerateIndex

Spec == Init /\ [][Next]_vars

\* ------------------------------------------------------------ the claims

\* The files of a given kind among a set of paths.
Rendered(f, paths, type) ==
    {p \in paths : IsFile(f, p) /\ f[p].data.type = type}

\* Where a copied theme lies in the output tree.
ThemeCopy(theme) == Append(output_assets_path, Last(ResolveAgainst(Cwd, theme.parts)))

\* C1: every relative path a rendered page was given (to the copied
\* framework, and to the copied theme when the theme is a local file),
\* resolved against the directory of the page, is exactly the asset's
\* location in the output tree, at whatever depth the page lies.
C1_RelativePathsDenoteAssets ==
    /\ \A p \in Rendered(fs, written, "slideshow") :
          /\ ResolveAgainst(Parent(p), fs[p].data.revealjs_path.parts)
                = output_revealjs_path
          /\ fs[p].data.theme.tag = "path" =>
                ResolveAgainst(Parent(p), fs[p].data.theme.parts)
                   = ThemeCopy(config.slides.theme)
    /\ \A p \in Rendered(fs, written, "index") :
          fs[p].data.theme.tag = "path" =>
             ResolveAgainst(Parent(p), fs[p].data.theme.parts)
                = ThemeCopy(config.index.theme)

\* A slideshow two directories below the output root was written with a
\* relative theme path and a relative framework path that climb.
C1_Witness ==
    \E p \in Rendered(fs, written, "slideshow") :
       /\ Len(p) = Len(output_directory_path) + 3
       /\ fs[p].data.theme.tag = "path"
       /\ fs[p].data.theme.parts[1] = UP
       /\ fs[p].data.revealjs_path.parts[2] = UP

\* A directory run has gone through its loop and written the index.
DirectoryRunDone == step = "index" /\ result = "ok"

\* C2: after a directory run every Markdown file's output path holds the
\* slideshow rendered from it and index.html holds the index; no output
\* path of a document is the path of the index.
C2_EveryDocumentKeepsItsSlideshow ==
    DirectoryRunDone =>
       /\ \A md \in Glob(fs) :
             /\ OutputMarkupPath(md) # index_path
             /\ IsFile(fs, OutputMarkupPath(md))
             /\ fs[OutputMarkupPath(md)].data.type = "slideshow"
             /\ fs[OutputMarkupPath(md)].data.markdown = fs[md].data.markdown
       /\ IsFile(fs, index_path)
       /\ fs[index_path].data.type = "index"

\* C3: a directory run made right after a completed directory run leaves
\* the output tree as the first run left it, the build timestamp of the
\* index aside.
C3_SecondRunChangesNothing ==
    (DirectoryRunDone /\ base.valid) =>
       StripTime(Tree(fs, output_directory_path)) = base.out

\* A second run in succession has ended; it rewrote files that were there
\* and the index carries a later timestamp than the first run's.
C3_Witness ==
    /\ DirectoryRunDone /\ base.valid
    /\ Cardinality(runWritten) >= 3
    /\ fs[index_path].data.build_datetime = 2
    /\ Tree(fs, output_directory_path) # base.out

\* The step just taken ran __process_markdown_file on Last(order).
FileStep == step \in {"single", "file"} /\ order # <<>>

ExistingImages(f, md) ==
    {ImagePath(md, f[md].data.markdown.images[i]) :
        i \in 1..Len(f[md].data.markdown.images)} \cap DOMAIN f

\* Nothing the document or the slideshow configuration needs is broken.
NoFatalCause(f, md) ==
    /\ IsFile(f, md) /\ ~f[md].data.malformed
    /\ \A i \in 1..Len(f[md].data.markdown.images) :
          Exists(f, ImagePath(md, f[md].data.markdown.images[i]))
    /\ \/ config.slides.theme.tag = "none"
       \/ config.slides.theme.scheme # ""
       \/ Exists(f, ResolveAgainst(Cwd, config.slides.theme.parts))
    /\ IsFile(f, ResolveAgainst(Cwd, config.slides.template.parts))

\* C4: a document that references an existing image outside the source
\* root, and has no fatal defect, is processed without failure: the image
\* is named in a warning and not copied, the slideshow is written, the
\* images inside the root are copied, and a directory run goes on.
C4_OutsideImageIsSkipped ==
    FileStep =>
       LET md == Last(order)
           outside == {i \in ExistingImages(fs, md) : ~IsRelativeTo(i, md_root_path)}
           inside == {i \in ExistingImages(fs, md) : IsRelativeTo(i, md_root_path)}
       IN (NoFatalCause(fs, md) /\ outside # {}) =>
             /\ result # "error"
             /\ outside \subseteq warnings
             /\ \A p \in written : \A i \in outside : fs[p].data # fs[i].data
             /\ OutputMarkupPath(md) \in written
             /\ fs[OutputMarkupPath(md)].data.type = "slideshow"
             /\ \A i \in inside :
                   LET copied == output_directory_path \o RelativeTo(i, md_root_path)
                   IN copied \in written /\ fs[copied] = fs[i]
             /\ step = "file" => pc = "dir"

\* A directory run has just processed a document with an image outside the
\* source root and one inside it, and goes on.
C4_Witness ==
    /\ step = "file" /\ pc = "dir" /\ result = "running"
    /\ DogPng \in warnings
    /\ output_directory_path \o RelativeTo(CatPng, md_root_path) \in written

\* C5: when __process_markdown_file raises inside a directory run the call
\* ends there: the loop is left, index.html is not among the files the run
\* has written, and the files the run wrote before that step are still
\* there with their content.
C5_FatalConditionStopsTheRun ==
    [][(pc = "dir" /\ step' = "file" /\ result' = "error") =>
          /\ pc' = "idle"
          /\ index_path \notin runWritten'
          /\ \A p \in runWritten : Exists(fs', p) /\ fs'[p] = fs[p]]_vars

\* What holds of C5 whatever the documents are named: the failing step
\* leaves the loop, renders no index and keeps what the run wrote before.
FatalConditionStopsTheRun ==
    [][(pc = "dir" /\ step' = "file" /\ result' = "error") =>
          /\ pc' = "idle"
          /\ Rendered(fs', written', "index") = {}
          /\ \A p \in runWritten : Exists(fs', p) /\ fs'[p] = fs[p]]_vars

\* C6: the index of a directory run lists one entry per Markdown file under
\* the source root, in processing order; an entry's location is the
\* document's output path below the output root, its title the front-matter
\* title, or the file's stem when there is none.
C6_IndexListsEveryDocument ==
    DirectoryRunDone =>
       /\ Range(order) = Glob(fs)
       /\ Len(order) = Cardinality(Glob(fs))
       /\ IsFile(fs, index_path)
       /\ fs[index_path].data.type = "index"
       /\ Len(fs[index_path].data.slideshows) = Len(order)
       /\ \A i \in 1..Len(order) :
             LET md == order[i]
                 entry == fs[index_path].data.slideshows[i]
                 titles == {kv[2] : kv \in {x \in fs[md].data.metadata : x[1] = "title"}}
             IN /\ entry.location =
                      WithSuffix(RelativeTo(md, md_root_path), ".html")
                /\ output_directory_path \o entry.location = OutputMarkupPath(md)
                /\ IF titles # {} THEN entry.title \in titles
                   ELSE entry.title = Last(md).stem

\* An index was written that lists a titled document and an untitled one.
C6_Witness ==
    /\ DirectoryRunDone
    /\ Len(order) = 2
    /\ \E i, j \in 1..2 :
          /\ fs[index_path].data.slideshows[i].title = "Intro"
          /\ fs[index_path].data.slideshows[j].title = "b"

\* C7: a theme given as an absolute URL reaches the template as that very
\* string and nothing is written below output/assets for it; a theme given
\* as a local file is copied to output/assets/<file name>, and the template
\* gets a relative path that leads to the copy.
C7_ThemePage(page, theme, source) ==
    IF theme.scheme # ""
    THEN /\ fs[page].data.theme = theme
         /\ \A p \in written : ~IsRelativeTo(p, output_assets_path)
    ELSE /\ Append(output_assets_path, Last(source)) \in written
         /\ fs[Append(output_assets_path, Last(source))] = fs[source]
         /\ fs[page].data.theme.tag = "path"
         /\ ResolveAgainst(Parent(page), fs[page].data.theme.parts)
               = Append(output_assets_path, Last(source))

C7_ThemeUrlOrCopy ==
    /\ (FileStep /\ NoFatalCause(fs, Last(order))
           /\ config.slides.theme.tag # "none") =>
          /\ result # "error"
          /\ C7_ThemePage(OutputMarkupPath(Last(order)), config.slides.theme,
                          ResolveAgainst(Cwd, config.slides.theme.parts))
    /\ (step = "index" /\ config.index.theme.tag # "none") =>
          /\ result = "ok"
          /\ C7_ThemePage(index_path, config.index.theme,
                          ResolveAgainst(Cwd, config.index.theme.parts))

\* An index with a copied local theme was written at the end of a run whose
\* slideshows were given a URL theme.
C7_Witness ==
    /\ DirectoryRunDone
    /\ order # <<>>
    /\ config.slides.theme = UrlTheme
    /\ fs[OutputMarkupPath(order[1])].data.theme = UrlTheme
    /\ fs[index_path].data.theme.tag = "path"
    /\ IsFile(fs, Append(output_assets_path, F("t", ".css")))

\* The copied framework directory a written slideshow points to exists.
FrameworkThere ==
    \A p \in Rendered(fs, written, "slideshow") :
       IsDir(fs, ResolveAgainst(Parent(p), fs[p].data.revealjs_path.parts))

\* C8 as stated: whatever the facade calls were, when a slideshow is
\* written the copied framework directory it points to exists.
C8_FrameworkAlwaysThere == FrameworkThere

\* C8 amended: when create_output_directory has run and no
\* clear_output_directory has followed it, the copied framework directory a
\* written slideshow points to exists.
C8_FrameworkThereOnceCreated == created => FrameworkThere

\* A slideshow below the output root was written after the output
\* directory had been created.
C8_Witness ==
    /\ created
    /\ \E p \in Rendered(fs, written, "slideshow") :
          Len(p) > Len(output_directory_path) + 1

\* C9: process_markdown on a directory runs the loop over every Markdown
\* file under the source root and then writes the index; on anything else
\* it processes that one file, and the only page it writes is that file's
\* slideshow: no index is rendered.
C9_DispatchOnKindOfPath ==
    /\ step \in {"start", "file", "index"} => IsDir(fs, input)
    /\ step = "start" => pc = "dir"
    /\ DirectoryRunDone =>
          /\ Range(order) = Glob(fs)
          /\ Rendered(fs, written, "index") = {index_path}
    /\ step = "single" =>
          /\ ~IsDir(fs, input)
          /\ pc = "idle"
          /\ order = <<input>>
          /\ Rendered(fs, written, "index") = {}
          /\ \A p \in written :
                Last(p).suffix = ".html" =>
                   /\ p = OutputMarkupPath(input)
                   /\ fs[p].data.type = "slideshow"
                   /\ fs[p].data.markdown = fs[input].data.markdown

\* One file was processed on its own, into an output tree that has no index.
C9_Witness ==
    /\ step = "single" /\ result = "ok"
    /\ OutputMarkupPath(input) \in written
    /\ ~Exists(fs, index_path)

\* C10: no step creates, changes or deletes anything under the source root.
C10_SourceRootUntouched ==
    [][Tree(fs', md_root_path) = Tree(fs, md_root_path)]_vars

====
